---- MODULE Spec2Model ----
(***************************************************************************)
(* Model of serial-pcap: the pcap capture writer and reader (src/lib.rs),  *)
(* the muxed-UART demultiplexer and the stream recorder (src/main.rs) and  *)
(* the interrupt staging buffer UartBuf (rp-rs422-cap/src/x328_bus).       *)
(*                                                                         *)
(* Bytes are integers 0..255, byte strings are sequences of bytes.         *)
(***************************************************************************)
EXTENDS Integers, Sequences, FiniteSets, TLC

(***************************************************************************)
(* Program constants                                                       *)
(***************************************************************************)
MAX_PACKET_LEN == 200

CTRL == 422

NODE == 1422

LEGACY_NODE == 1442

\* the bytes write_packet_time leaves for the headers in every packet
HDR_RESERVE == 32

\* what PacketBuilder::ipv4(..).udp(..) really prepends: IPv4 (20) + UDP (8)
IpUdpHeaderLen == 20 + 8

MAX_PAYLOAD == MAX_PACKET_LEN - HDR_RESERVE

UartTxChannel == {"Ctrl", "Node"}

(***************************************************************************)
(* Bounds of the model                                                     *)
(***************************************************************************)
\* number of write_packet_time calls in one capture
MaxWrites == 2

\* run lengths offered to write_packet_time: empty, short, around one
\* record, and the four-record run 3 * MAX_PAYLOAD + 7
Lens == {0, 1, MAX_PAYLOAD, MAX_PAYLOAD + 1, 3 * MAX_PAYLOAD + 7}

\* first byte of the run the k-th call writes (k from 0); the run counts up
\* from it modulo 256, so the calls write different bytes.  Writer and reader
\* never look at a payload byte, so the byte values are free to choose.
Seed(k) == (4 + 45 * k) % 256

\* max_len arguments offered to read_bytes / buffer sizes offered to read
ReadLens == {0, 200, 600}

(***************************************************************************)
(* Sequence helpers                                                        *)
(***************************************************************************)
Min(a, b) == IF a < b THEN a ELSE b

Take(s, n) == SubSeq(s, 1, Min(n, Len(s)))

Drop(s, n) == SubSeq(s, Min(n, Len(s)) + 1, Len(s))

RECURSIVE Concat(_)
Concat(ss) == IF ss = <<>> THEN <<>> ELSE Head(ss) \o Concat(Tail(ss))

\* a run of len bytes, all different within any window of 256
Run(len, seed) == [i \in 1..len |-> (seed + i - 1) % 256]

VARIABLES
    \* ---- capture file and SerialPacketWriter
    file,        \* the records of the pcap file, in file order
    werr,        \* TRUE once write_packet_time returned an error
    calls,       \* the write_packet_time calls made: [ch, data, time, first, last]
    clock,       \* the time source (SystemTime::now), in file resolution
    io_fail,     \* TRUE once the output file takes no more writes
    \* ---- a test writing a capture and the SerialPacketReader reading it
    written,     \* per channel: the data of all write calls, concatenated
    opened,      \* TRUE once the reader was constructed on the file
    pos,         \* number of records pcap_reader has returned
    ctrl_buf,
    node_buf,
    rerr,        \* TRUE once a reader call returned an error
    got,         \* per channel: the bytes returned by the reads, concatenated
    eos,         \* per channel: a read asking for bytes returned none
    replayed,    \* the records parse_x328_uart has processed, as file indexes
    \* ---- UartBuf (one staging buffer and its caller)
    ubuf,        \* the UartBuf: [len, read_pos, data]
    panicked,    \* TRUE once an operation panicked (the firmware stops)
    arrived,     \* number of bytes the UART has delivered so far
    nops,        \* number of UartBuf operations performed
    last,        \* the operation performed last, with what it was given
    \* ---- the UART interrupt handlers of the firmware and their buffers
    irq_buf,     \* the UartBuf of uart0_irq (index 0) and of uart1_irq (index 1)
    irq_pc,      \* where uart1_irq stands; "idle" when it is not running
    irq_tail,    \* uart1_irq's locals: where tail starts and len
    irq_snap,    \* its buffer as the last step of uart1_irq left it
    irq_who,     \* the handler (0 or 1) that took the last step
    irq_n,       \* number of handler runs started
    irq_halt,    \* TRUE once a handler panicked
    usb,         \* the bytes written to usb_serial: the muxed stream
    \* ---- read_muxed_uart
    wire,        \* the bytes the muxed UART has delivered so far
    mux_buf,     \* buf of read_muxed_uart between two reads
    mux_pc,      \* "reading", or "failed" once it returned an error
    \* ---- the unbounded channel (tx, rx) of main
    queue,       \* the UartData events sent and not yet received
    sent,        \* every UartData event sent, in send order
    closed,      \* TRUE once every sender has been dropped
    \* ---- record_streams
    prev_ch,
    rec_buf,     \* buf of record_streams: the open run
    rec_time,    \* time of record_streams: the open run's timestamp
    rec_pc,      \* "running", "done" (returned Ok) or "failed" (returned Err)
    deq,         \* every event record_streams received, in order
    rec_last,    \* what the last loop iteration received and found
    \* ---- main
    main_pc,     \* "select", "await" (waiting for the recorder) or "returned"
    res,         \* the result main keeps from the select: "ok" or the error of a producer
    at_drop,     \* how many events were sent and received when the select ended
    muxed,       \* args.muxed: one muxed UART in place of two
    errs         \* the errors the tasks returned, in the order they occurred

fileVars == <<file, werr, calls, clock, io_fail>>

readerVars == <<written, opened, pos, ctrl_buf, node_buf, rerr, got, eos, replayed>>

irqVars == <<irq_buf, irq_pc, irq_tail, irq_snap, irq_who, irq_n, irq_halt, usb>>

bufVars == <<ubuf, panicked, arrived, nops, last, irqVars>>

muxVars == <<wire, mux_buf, mux_pc>>

chanVars == <<queue, sent, closed>>

recVars == <<prev_ch, rec_buf, rec_time, rec_pc, deq, rec_last>>

mainVars == <<main_pc, res, at_drop, muxed, errs>>

vars == <<fileVars, readerVars, bufVars, muxVars, chanVars, recVars, mainVars>>

(***************************************************************************)
(* SerialPacketWriter::write_packet_time                                   *)
(***************************************************************************)
\* the match with the Node arm a copy of the Ctrl arm: the ports not swapped
EndpointsUnswapped(channel) ==
    IF channel = "Ctrl"
    THEN [ip_src |-> <<127, 0, 0, 1>>, ip_dst |-> <<127, 0, 0, 2>>, sport |-> CTRL, dport |-> NODE]
    ELSE [ip_src |-> <<127, 0, 0, 2>>, ip_dst |-> <<127, 0, 0, 1>>, sport |-> CTRL, dport |-> NODE]

\* the (ip, ports) match of write_packet_time
Endpoints(channel) ==
    IF channel = "Ctrl"
    THEN [ip_src |-> <<127, 0, 0, 1>>, ip_dst |-> <<127, 0, 0, 2>>, sport |-> CTRL, dport |-> NODE]
    ELSE [ip_src |-> <<127, 0, 0, 2>>, ip_dst |-> <<127, 0, 0, 1>>, sport |-> NODE, dport |-> CTRL]

\* slice::chunks(n): consecutive pieces of n bytes, the last one shorter
RECURSIVE Chunks(_, _)
Chunks(data, n) ==
    IF data = <<>> THEN <<>>
    ELSE <<Take(data, n)>> \o Chunks(Drop(data, n), n)

\* the chunk size had the reserve been the real header length
ChunkSizeTightFit == MAX_PACKET_LEN - IpUdpHeaderLen

ChunkSize == MAX_PACKET_LEN - HDR_RESERVE

\* one packet: builder.write into an ArrayVec of MAX_PACKET_LEN bytes
PacketFits(chunk) == IpUdpHeaderLen + Len(chunk) <= MAX_PACKET_LEN

\* a packet stamped when it is built and not with the call's time: the
\* records after the first full one carry a later time
PacketStampedLate(chunk, channel, time) ==
    LET e == Endpoints(channel) IN
    [ip_src |-> e.ip_src, ip_dst |-> e.ip_dst, ttl |-> 254, proto |-> "udp",
     sport |-> e.sport, dport |-> e.dport, payload |-> chunk,
     time |-> IF Len(chunk) < MAX_PAYLOAD THEN time + 1 ELSE time]

Packet(chunk, channel, time) ==
    LET e == Endpoints(channel) IN
    [ip_src |-> e.ip_src, ip_dst |-> e.ip_dst, ttl |-> 254, proto |-> "udp",
     sport |-> e.sport, dport |-> e.dport, payload |-> chunk, time |-> time]

\* number of leading chunks that are written before the first failure
RECURSIVE GoodPrefix(_)
GoodPrefix(chunks) ==
    IF chunks = <<>> \/ ~PacketFits(Head(chunks)) THEN 0
    ELSE 1 + GoodPrefix(Tail(chunks))

\* a writer that writes one record for an empty run too
WriteResultPadded(data, channel, time) ==
    LET chunks == IF data = <<>> THEN << <<>> >> ELSE Chunks(data, ChunkSize)
        k      == GoodPrefix(chunks)
    IN [recs |-> [i \in 1..k |-> Packet(chunks[i], channel, time)],
        err  |-> k < Len(chunks)]

\* the records one call appends, and whether it returned an error
WriteResult(data, channel, time) ==
    LET chunks == Chunks(data, ChunkSize)
        \* self.pcap_writer.write(..)? fails on a file that takes no writes
        k      == IF io_fail THEN 0 ELSE GoodPrefix(chunks)
    IN [recs |-> [i \in 1..k |-> Packet(chunks[i], channel, time)],
        err  |-> k < Len(chunks)]

write_packet_time(data, channel, time) ==
    LET r == WriteResult(data, channel, time) IN
    /\ file' = file \o r.recs
    /\ werr' = r.err

\* a caller of the writer (tests/x328_chat_test.rs: test_chatter_write)
WriteCall(length, channel) ==
    /\ ~opened /\ ~werr
    /\ Len(calls) < MaxWrites
    /\ write_packet_time(Run(length, Seed(Len(calls))), channel, clock)
    /\ written' = [written EXCEPT ![channel] = @ \o Run(length, Seed(Len(calls)))]
    /\ calls' = Append(calls, [ch |-> channel, data |-> Run(length, Seed(Len(calls))),
                               time |-> clock,
                               first |-> Len(file) + 1, last |-> Len(file')])
    /\ clock' = clock + 1
    /\ UNCHANGED <<io_fail, opened, pos, ctrl_buf, node_buf, rerr, got, eos, replayed>>
    /\ UNCHANGED <<bufVars, muxVars, chanVars, recVars, mainVars>>

(***************************************************************************)
(* SerialPacketReader                                                      *)
(***************************************************************************)
\* SerialPacketReader::new on the finished capture
ReaderNew ==
    /\ ~opened
    /\ opened' = TRUE
    /\ pos' = 0 /\ ctrl_buf' = <<>> /\ node_buf' = <<>>
    /\ UNCHANGED <<fileVars, written, rerr, got, eos, replayed>>
    /\ UNCHANGED <<bufVars, muxVars, chanVars, recVars, mainVars>>

\* the match without the 1442 arm
ChannelOfPortNoAlias(source_port) ==
    CASE source_port = CTRL -> "Ctrl"
      [] source_port = NODE -> "Node"
      [] OTHER -> "bad"

\* the match with a catch-all Node arm in place of the bail! arm
ChannelOfPortAny(source_port) ==
    CASE source_port = CTRL -> "Ctrl"
      [] OTHER -> "Node"

\* the source_port match of next_packet; "bad" is the bail! arm
ChannelOfPort(source_port) ==
    CASE source_port = CTRL -> "Ctrl"
      [] source_port = NODE -> "Node"
      [] source_port = LEGACY_NODE -> "Node"
      [] OTHER -> "bad"

\* next_packet on the record at index p+1: "eof", "err" or the packet
NextPacket(p) ==
    IF p >= Len(file) THEN [kind |-> "eof"]
    ELSE LET pkt == file[p + 1] IN
         IF pkt.proto # "udp" \/ ChannelOfPort(pkt.sport) = "bad"
         THEN [kind |-> "err"]
         ELSE [kind |-> "pkt", ch |-> ChannelOfPort(pkt.sport), data |-> pkt.payload,
               time |-> pkt.time]

\* get_buffer with the two match arms exchanged
get_buffer_swapped(st, ch) == IF ch = "Ctrl" THEN st.node ELSE st.ctrl

get_buffer(st, ch) == IF ch = "Ctrl" THEN st.ctrl ELSE st.node

\* extend_one_pkt that stores the packet in place of the buffer (buf = pkt.data)
extend_one_pkt_replace(st) ==
    LET n == NextPacket(st.pos) IN
    CASE n.kind = "eof" -> [st |-> st, more |-> FALSE]
      [] n.kind = "err" -> [st |-> [st EXCEPT !.pos = @ + 1, !.err = TRUE], more |-> FALSE]
      [] OTHER ->
            [st |-> IF n.ch = "Ctrl"
                    THEN [st EXCEPT !.pos = @ + 1, !.ctrl = n.data]
                    ELSE [st EXCEPT !.pos = @ + 1, !.node = n.data],
             more |-> TRUE]

\* extend_one_pkt: [st, more]; more is the Ok(bool), err is in st
extend_one_pkt(st) ==
    LET n == NextPacket(st.pos) IN
    CASE n.kind = "eof" -> [st |-> st, more |-> FALSE]
      [] n.kind = "err" -> [st |-> [st EXCEPT !.pos = @ + 1, !.err = TRUE], more |-> FALSE]
      [] OTHER ->
            [st |-> IF n.ch = "Ctrl"
                    THEN [st EXCEPT !.pos = @ + 1, !.ctrl = @ \o n.data]
                    ELSE [st EXCEPT !.pos = @ + 1, !.node = @ \o n.data],
             more |-> TRUE]

\* fill_buffer with an if in place of the while: at most one record is pulled
fill_buffer_once(st, ch) ==
    IF get_buffer(st, ch) # <<>> THEN st ELSE extend_one_pkt(st).st

\* fill_buffer that drops the records of the other channel it passes
RECURSIVE fill_buffer_skip(_, _)
fill_buffer_skip(st, ch) ==
    IF get_buffer(st, ch) # <<>> THEN st
    ELSE LET n == NextPacket(st.pos)
             r == extend_one_pkt(st)
         IN CASE n.kind = "eof" -> st
              [] n.kind = "err" -> r.st
              [] OTHER -> IF n.ch = ch THEN fill_buffer_skip(r.st, ch)
                          ELSE fill_buffer_skip([st EXCEPT !.pos = @ + 1], ch)

\* fill_buffer: while get_buffer(ch).is_empty() && extend_one_pkt()? {}
RECURSIVE fill_buffer(_, _)
fill_buffer(st, ch) ==
    IF get_buffer(st, ch) # <<>> THEN st
    ELSE LET r == extend_one_pkt(st) IN
         IF r.more THEN fill_buffer(r.st, ch) ELSE r.st

CurState == [pos |-> pos, ctrl |-> ctrl_buf, node |-> node_buf, err |-> FALSE]

\* buf.split_to(len) on the channel's buffer; out is the part returned
SplitTo(st, ch, len) ==
    IF ch = "Ctrl" THEN [st EXCEPT !.ctrl = Drop(@, len)]
    ELSE [st EXCEPT !.node = Drop(@, len)]

\* what a successful or failed read leaves behind
Deliver(st, ch, max_len) ==
    LET buf == get_buffer(st, ch)
        len == Min(max_len, Len(buf))
        out == Take(buf, len)
        st2 == SplitTo(st, ch, len)
    IN IF st.err
       THEN /\ pos' = st.pos /\ ctrl_buf' = st.ctrl /\ node_buf' = st.node
            /\ rerr' = TRUE
            /\ UNCHANGED <<got, eos>>
       ELSE /\ pos' = st2.pos /\ ctrl_buf' = st2.ctrl /\ node_buf' = st2.node
            /\ rerr' = FALSE
            /\ got' = [got EXCEPT ![ch] = @ \o out]
            /\ eos' = [eos EXCEPT ![ch] = (max_len > 0 /\ out = <<>>)]

\* SerialPacketReader::read_bytes(ch, max_len)
read_bytes(ch, max_len) ==
    /\ opened /\ ~rerr
    /\ LET st == IF get_buffer(CurState, ch) = <<>> THEN fill_buffer(CurState, ch)
                 ELSE CurState
       IN Deliver(st, ch, max_len)
    /\ UNCHANGED <<fileVars, written, opened, replayed>>
    /\ UNCHANGED <<bufVars, muxVars, chanVars, recVars, mainVars>>

\* reader(ch).read(buf) with a buffer of n bytes (ReadPcapReadImpl::read)
reader_read(ch, n) ==
    /\ opened /\ ~rerr
    /\ Deliver(fill_buffer(CurState, ch), ch, n)
    /\ UNCHANGED <<fileVars, written, opened, replayed>>
    /\ UNCHANGED <<bufVars, muxVars, chanVars, recVars, mainVars>>

(***************************************************************************)
(* Captures that earlier producers made: records whose ports the writer    *)
(* never produces, and records that carry no UDP header                    *)
(***************************************************************************)
\* number of records of such a capture
MaxAlien == 3

\* (source port, destination port, transport) of the records: the two
\* channel pairs, the legacy Node variant, a known source port in another
\* pair, an unknown source port, a channel pair under TCP, and a record
\* whose bytes are no IP packet ("corrupt": SlicedPacket::from_ip fails)
AlienKinds ==
    {<<CTRL, NODE, "udp">>, <<NODE, CTRL, "udp">>, <<LEGACY_NODE, CTRL, "udp">>,
     <<CTRL, CTRL, "udp">>, <<NODE + 1, CTRL, "udp">>, <<NODE, CTRL, "tcp">>,
     <<CTRL, NODE, "corrupt">>}

\* max_len arguments offered to the reads of such a capture
AlienReadLens == {0, 1, 200}

\* the capture holds one more record, of two payload bytes
AlienRecord(kind) ==
    /\ ~opened
    /\ Len(file) < MaxAlien
    /\ file' = Append(file, [ip_src |-> <<127, 0, 0, 1>>, ip_dst |-> <<127, 0, 0, 2>>,
                             ttl |-> 254, proto |-> kind[3],
                             sport |-> kind[1], dport |-> kind[2],
                             payload |-> Run(2, Seed(Len(file))), time |-> clock])
    /\ clock' = clock + 1
    /\ UNCHANGED <<werr, calls, io_fail>>
    /\ UNCHANGED <<readerVars, bufVars, muxVars, chanVars, recVars, mainVars>>

\* a replay loop that goes on after a record it could not decode
ReplayRunningAlways == TRUE

\* parse_x328_uart is in its loop: no pkt_iter.next().transpose()? has
\* returned an error yet
ReplayRunning == IF replayed = <<>> THEN TRUE ELSE replayed[Len(replayed)] # "err"

\* one turn of the loop of parse_x328_uart over its own reader of the
\* finished capture: pkt_iter.next() decodes the next record; the packet is
\* processed, or the error ends the replay
replay_next ==
    /\ opened
    /\ ReplayRunning
    /\ Len(replayed) < Len(file)
    /\ replayed' = Append(replayed, NextPacket(Len(replayed)).kind)
    /\ UNCHANGED <<written, opened, pos, ctrl_buf, node_buf, rerr, got, eos>>
    /\ UNCHANGED <<fileVars, bufVars, muxVars, chanVars, recVars, mainVars>>

AlienNext ==
    \/ \E kind \in AlienKinds : AlienRecord(kind)
    \/ ReaderNew
    \/ \E ch \in UartTxChannel, max_len \in AlienReadLens : read_bytes(ch, max_len)
    \/ \E ch \in UartTxChannel, n \in AlienReadLens : reader_read(ch, n)
    \/ replay_next

\* a consumer that reads ch to its end of stream from reader state st:
\* loop { read_bytes(ch, usize::MAX) } until the result is empty
RECURSIVE ReadToEnd(_, _)
ReadToEnd(st, ch) ==
    LET st2 == IF get_buffer(st, ch) = <<>> THEN fill_buffer(st, ch) ELSE st
        buf == get_buffer(st2, ch)
    IN IF buf = <<>> \/ st2.err THEN <<>>
       ELSE buf \o ReadToEnd(SplitTo(st2, ch, Len(buf)), ch)

(***************************************************************************)
(* UartBuf (rp-rs422-cap/src/x328_bus/mod.rs)                              *)
(*                                                                         *)
(* A buffer is the record [len, read_pos, data]; data[i + 1] is the Rust   *)
(* data[i].  An operation returns the buffer it leaves behind and whether  *)
(* it panicked (an out-of-range slice index).                              *)
(***************************************************************************)
\* data: [u8; 20]
Capacity == 20

\* number of UartBuf operations in one run of the model
MaxOps == 6

\* data lengths offered to write
WriteLens == {0, 4, 10, 21}

\* min_cap arguments offered to tail_slice
TailCaps == {1, 4}

\* numbers of bytes the UART has ready when the caller fills the slice
FillLens == {0, 1, 20}

\* arguments offered to incr_len
IncrLens == {0, 1, 20}

\* arguments offered to consume
ConsumeLens == {1, 5, 20}

\* the k-th byte the UART delivers (k from 0): never 0, all different
Fresh(k) == (k % 255) + 1

FreshBytes(from, n) == [i \in 1..n |-> Fresh(from + i - 1)]

\* UartBuf::new
UartBufNew == [len |-> 0, read_pos |-> 0, data |-> [i \in 1..Capacity |-> 0]]

\* Deref: &self.data[self.read_pos..self.read_pos + self.len]
Deref(b) == SubSeq(b.data, b.read_pos + 1, b.read_pos + b.len)

is_empty(b) == b.len = 0

tail_capacity(b) == Len(b.data) - (b.read_pos + b.len)

\* consume without the clamp to len
consume_unclamped(b, n) == [b EXCEPT !.read_pos = @ + n, !.len = @ - n]

\* consume that rewinds the cursor once nothing is left
consume_resetting(b, n) ==
    LET k == Min(n, b.len) IN
    IF k = b.len THEN [b EXCEPT !.read_pos = 0, !.len = 0]
    ELSE [b EXCEPT !.read_pos = @ + k, !.len = @ - k]

consume(b, n) ==
    LET k == Min(n, b.len) IN
    [b EXCEPT !.read_pos = @ + k, !.len = @ - k]

incr_len(b, new) ==
    LET n == Min(tail_capacity(b), new) IN
    [b EXCEPT !.len = @ + n]

\* <[u8]>::copy_within(start..end, 0): panics when start > end or end > len
CopyWithinOk(d, start, end) == start <= end /\ end <= Len(d)

CopyWithin(d, start, end) ==
    [i \in 1..Len(d) |-> IF i <= end - start THEN d[start + i] ELSE d[i]]

\* tail_slice: the buffer left behind, the start of the returned slice
\* &mut self.data[wr_pos..] and whether the call panicked
tail_slice(b, min_cap) ==
    LET b1 == IF is_empty(b) THEN [b EXCEPT !.read_pos = 0] ELSE b
        tail_cap == tail_capacity(b1)
        tot_spare_cap == tail_cap + b1.read_pos
        b2 == IF tot_spare_cap < min_cap THEN consume(b1, min_cap - tot_spare_cap) ELSE b1
        copies == tail_cap < min_cap
        copy_ok == CopyWithinOk(b2.data, b2.read_pos, b2.len)
        b3 == IF copies /\ copy_ok
              THEN [b2 EXCEPT !.data = CopyWithin(b2.data, b2.read_pos, b2.len)]
              ELSE b2
        wr_pos == b3.read_pos + b3.len
    IN [b |-> b3,
        wr_pos |-> wr_pos,
        panic |-> (copies /\ ~copy_ok) \/ wr_pos > Len(b3.data)]

\* the returned slice's length
SliceLen(ts) == Len(ts.b.data) - ts.wr_pos

\* storing bytes at the start of a slice that begins at wr_pos
Store(b, wr_pos, bytes) ==
    [b EXCEPT !.data = [i \in 1..Len(b.data) |->
        IF i > wr_pos /\ i <= wr_pos + Len(bytes) THEN bytes[i - wr_pos] ELSE b.data[i]]]

\* write: the buffer left behind and whether the call panicked
write(b, bytes) ==
    LET d == IF Len(bytes) > Len(b.data)
             THEN SubSeq(bytes, Len(bytes) - Len(b.data) + 1, Len(bytes))
             ELSE bytes
        ts == tail_slice(b, Len(d))
    IN IF ts.panic THEN [b |-> ts.b, panic |-> TRUE]
       ELSE IF Len(d) > SliceLen(ts) THEN [b |-> ts.b, panic |-> TRUE]
       ELSE [b |-> incr_len(Store(ts.b, ts.wr_pos, d), Len(d)), panic |-> FALSE]

\* ---- the operations as steps of a caller
\* what an operation found: the content, the room behind it and in total
Before(b) == [content |-> Deref(b), tail_cap |-> tail_capacity(b),
              free |-> Len(b.data) - b.len, read_pos |-> b.read_pos]

\* write(data) with the next n bytes of the UART
UbWrite(n) ==
    /\ ~panicked /\ nops < MaxOps
    /\ LET r == write(ubuf, FreshBytes(arrived, n)) IN
       /\ ubuf' = r.b
       /\ panicked' = r.panic
    /\ arrived' = arrived + n
    /\ nops' = nops + 1
    /\ last' = [op |-> "write", bytes |-> FreshBytes(arrived, n), pre |-> Before(ubuf)]
    /\ UNCHANGED irqVars
    /\ UNCHANGED <<fileVars, readerVars, muxVars, chanVars, recVars, mainVars>>

\* tail_slice(min_cap), after which the caller stores in the slice what the
\* UART has ready, k bytes, but no more than the slice holds
\* (let len = uart.read_raw(tail) in the interrupt handlers)
UbTailSlice(min_cap, k) ==
    /\ ~panicked /\ nops < MaxOps
    /\ LET ts == tail_slice(ubuf, min_cap)
           kk == IF ts.panic THEN 0 ELSE Min(k, SliceLen(ts))
       IN /\ ubuf' = IF ts.panic THEN ts.b ELSE Store(ts.b, ts.wr_pos, FreshBytes(arrived, kk))
          /\ panicked' = ts.panic
          /\ arrived' = arrived + kk
          /\ last' = [op |-> "tail_slice", min_cap |-> min_cap, ready |-> k,
                      bytes |-> FreshBytes(arrived, kk),
                      slice_len |-> IF ts.panic THEN 0 ELSE SliceLen(ts),
                      pre |-> Before(ubuf)]
    /\ nops' = nops + 1
    /\ UNCHANGED irqVars
    /\ UNCHANGED <<fileVars, readerVars, muxVars, chanVars, recVars, mainVars>>

\* incr_len(new); the interrupt handlers pass the number of bytes stored
UbIncrLen(new) ==
    /\ ~panicked /\ nops < MaxOps
    /\ ubuf' = incr_len(ubuf, new)
    /\ nops' = nops + 1
    /\ last' = [op |-> "incr_len", new |-> new, after |-> last, pre |-> Before(ubuf)]
    /\ UNCHANGED irqVars
    /\ UNCHANGED <<panicked, arrived>>
    /\ UNCHANGED <<fileVars, readerVars, muxVars, chanVars, recVars, mainVars>>

UbConsume(n) ==
    /\ ~panicked /\ nops < MaxOps
    /\ ubuf' = consume(ubuf, n)
    /\ nops' = nops + 1
    /\ last' = [op |-> "consume", n |-> n, pre |-> Before(ubuf)]
    /\ UNCHANGED irqVars
    /\ UNCHANGED <<panicked, arrived>>
    /\ UNCHANGED <<fileVars, readerVars, muxVars, chanVars, recVars, mainVars>>

BufNext ==
    \/ \E n \in WriteLens : UbWrite(n)
    \/ \E min_cap \in TailCaps, k \in FillLens : UbTailSlice(min_cap, k)
    \/ \E new \in IncrLens : UbIncrLen(new)
    \/ \E n \in ConsumeLens : UbConsume(n)

(***************************************************************************)
(* The UART interrupt handlers (rp-rs422-cap/src/main.rs)                  *)
(*                                                                         *)
(* uart0_irq (priority 2) preempts uart1_irq (priority 1) wherever         *)
(* uart1_irq holds no lock; both locks it takes have a ceiling of at       *)
(* least 2.  uart0_irq runs to its end once started, so it is one step;    *)
(* uart1_irq is one step per statement between two preemption points.      *)
(***************************************************************************)
\* number of handler runs in one run of the model
MaxIrqs == 3

\* numbers of bytes uart.read_raw stores in the slice it is given
IrqReady == {0, 1, 2}

\* the counts the scanner returns for buf.consume(consumed)
IrqConsumed == {0, 1, 2}

\* the bytes a read_raw of n bytes stores in the handler run started at
\* irq_n: 7-bit data, distinct per run
IrqBytes(n) == [i \in 1..n |-> 49 + irq_n]

\* one buffer for both handlers, as if buf were a shared static
HandlerBufShared(h) == 1

\* ctx.local.buf of handler h (0: uart0_irq, 1: uart1_irq): its own UartBuf
HandlerBuf(h) == h

\* let tail = buf.tail_slice(1); let len = uart.read_raw(tail), on buffer b
\* with k bytes ready
IrqRead(b, k) ==
    LET ts == tail_slice(b, 1)
        kk == IF ts.panic THEN 0 ELSE Min(k, SliceLen(ts))
    IN [b |-> IF ts.panic THEN ts.b ELSE Store(ts.b, ts.wr_pos, IrqBytes(kk)),
        wr_pos |-> ts.wr_pos, len |-> kk, panic |-> ts.panic]

\* &tail[0..len] of buffer b
TailBytes(b, t) == SubSeq(b.data, t.wr_pos + 1, t.wr_pos + t.len)

\* for b in tail.iter_mut() { *b |= 0x80 }
TagTail(b, t) ==
    Store(b, t.wr_pos, [i \in 1..t.len |->
        LET v == b.data[t.wr_pos + i] IN IF v < 128 THEN v + 128 ELSE v])

\* for b in tail.iter_mut() { *b &= 0x7f }
UntagTail(b, t) ==
    Store(b, t.wr_pos, [i \in 1..t.len |-> b.data[t.wr_pos + i] % 128])

\* a step of a handler leaves everything but the handlers' state alone
IrqFrame ==
    /\ UNCHANGED <<ubuf, panicked, arrived, nops, last>>
    /\ UNCHANGED <<fileVars, readerVars, muxVars, chanVars, recVars, mainVars>>

\* uart0_irq from entry to return: tail_slice, read_raw, serial.write and
\* incr_len under the usb_serial lock, consume under the x328_scanner lock
Uart0Irq(k, consumed) ==
    /\ ~irq_halt /\ irq_n < MaxIrqs
    /\ LET me == HandlerBuf(0)
           r  == IrqRead(irq_buf[me], k)
           t  == [wr_pos |-> r.wr_pos, len |-> r.len]
       IN /\ irq_halt' = r.panic
          /\ usb' = IF r.panic THEN usb ELSE usb \o TailBytes(r.b, t)
          /\ irq_buf' = [irq_buf EXCEPT ![me] =
                            IF r.panic THEN r.b ELSE consume(incr_len(r.b, r.len), consumed)]
    /\ irq_n' = irq_n + 1
    /\ irq_who' = 0
    /\ UNCHANGED <<irq_pc, irq_tail, irq_snap>>
    /\ IrqFrame

\* uart1_irq: let tail = buf.tail_slice(1); let len = uart.read_raw(tail)
Uart1Read(k) ==
    /\ ~irq_halt /\ irq_n < MaxIrqs
    /\ irq_pc = "idle"
    /\ LET r == IrqRead(irq_buf[HandlerBuf(1)], k) IN
       /\ irq_halt' = r.panic
       /\ irq_buf' = [irq_buf EXCEPT ![HandlerBuf(1)] = r.b]
       /\ irq_snap' = r.b
       /\ irq_tail' = [wr_pos |-> r.wr_pos, len |-> r.len]
       /\ irq_pc' = IF r.panic THEN "idle" ELSE "tag"
    /\ irq_n' = irq_n + 1
    /\ irq_who' = 1
    /\ UNCHANGED usb
    /\ IrqFrame

\* a statement of uart1_irq that takes its buffer from b to nb
Uart1Step(from, to, nb) ==
    /\ ~irq_halt
    /\ irq_pc = from
    /\ irq_pc' = to
    /\ irq_buf' = [irq_buf EXCEPT ![HandlerBuf(1)] = nb]
    /\ irq_snap' = nb
    /\ irq_who' = 1
    /\ UNCHANGED <<irq_tail, irq_n, irq_halt>>
    /\ IrqFrame

\* uart1_irq: set bit 8 high to indicate uart 1
Uart1Tag ==
    /\ Uart1Step("tag", "usb", TagTail(irq_buf[HandlerBuf(1)], irq_tail))
    /\ UNCHANGED usb

\* uart1_irq: serial.write(tail) under the usb_serial lock
Uart1Usb ==
    /\ Uart1Step("usb", "untag", irq_buf[HandlerBuf(1)])
    /\ usb' = usb \o TailBytes(irq_buf[HandlerBuf(1)], irq_tail)

\* uart1_irq: clear bit 8 again
Uart1Untag ==
    /\ Uart1Step("untag", "incr", UntagTail(irq_buf[HandlerBuf(1)], irq_tail))
    /\ UNCHANGED usb

\* uart1_irq: buf.incr_len(len)
Uart1IncrLen ==
    /\ Uart1Step("incr", "scan", incr_len(irq_buf[HandlerBuf(1)], irq_tail.len))
    /\ UNCHANGED usb

\* uart1_irq: buf.consume(consumed) under the x328_scanner lock, and return
Uart1Scan(consumed) ==
    /\ Uart1Step("scan", "idle", consume(irq_buf[HandlerBuf(1)], consumed))
    /\ UNCHANGED usb

IrqNext ==
    \/ \E k \in IrqReady, consumed \in IrqConsumed : Uart0Irq(k, consumed)
    \/ \E k \in IrqReady : Uart1Read(k)
    \/ Uart1Tag
    \/ Uart1Usb
    \/ Uart1Untag
    \/ Uart1IncrLen
    \/ \E consumed \in IrqConsumed : Uart1Scan(consumed)

(***************************************************************************)
(* read_muxed_uart (src/main.rs): one UART carries both channels, the      *)
(* channel of a byte is its bit 7, TRIG_BYTE is the trigger marker.        *)
(***************************************************************************)
\* the trigger marker: serial_pcap::TRIG_BYTE, which main.rs documents as
\* '\n' ("\n == Trigger event")
TRIG_BYTE == 10

\* total number of bytes the muxed UART delivers
MaxWire == 5

\* largest number of bytes one read_buf call returns
MaxChunk == 3

\* bytes on the muxed wire: the marker, a Node byte, a Ctrl byte whose low
\* bits equal the marker, and a Ctrl byte
MuxBytes == {10, 49, 138, 177}

MuxChunks == UNION {[1..n -> MuxBytes] : n \in 1..MaxChunk}

\* b & 0x40: the bit below the tag bit
Bit7(b) == ((b \div 64) % 2) * 64

\* b & 0x80
Bit8(b) == (b \div 128) * 128

\* b unchanged, as if the tag bit were never cleared
KeepBit8(b) == b

\* b & 0x7f
ClearBit8(b) == b % 128

\* index of the first byte of buf, marker or not (0: buf is empty)
FirstByte(buf) == IF buf = <<>> THEN 0 ELSE 1

\* buf.iter().find(|&&b| b != TRIG_BYTE): index of the first byte that is
\* not the marker, 0 for None
RECURSIVE FirstData(_)
FirstData(buf) ==
    IF buf = <<>> THEN 0
    ELSE IF Head(buf) # TRIG_BYTE THEN 1
    ELSE LET i == FirstData(Tail(buf)) IN IF i = 0 THEN 0 ELSE i + 1

\* a run that ends with the first byte that is not the marker
TakeUpToFirstData(buf, ch) == FirstData(buf)

\* buf.iter().take_while(|&b| b & 0x80 == ch || *b == TRIG_BYTE).count()
RECURSIVE TakeWhileCount(_, _)
TakeWhileCount(buf, ch) ==
    IF buf = <<>> THEN 0
    ELSE IF Bit8(Head(buf)) = ch \/ Head(buf) = TRIG_BYTE
         THEN 1 + TakeWhileCount(Tail(buf), ch)
         ELSE 0

UartData(ch_name, data, time_received) ==
    [ch_name |-> ch_name, data |-> data, time_received |-> time_received]

\* a loop that empties a buffer in which it finds markers only
DropMarkers(buf) == <<>>

\* continue 'read with buf untouched: the markers wait for the next read
KeepMarkers(buf) == buf

\* the while !buf.is_empty() loop: the events sent and what stays in buf
RECURSIVE MuxSplit(_, _)
MuxSplit(buf, time_received) ==
    IF buf = <<>> THEN [events |-> <<>>, rest |-> <<>>]
    ELSE LET i == FirstData(buf) IN
         IF i = 0 THEN [events |-> <<>>, rest |-> KeepMarkers(buf)]
         ELSE LET ch == Bit8(buf[i])
                  ch_name == IF ch = 128 THEN "Ctrl" ELSE "Node"
                  l == TakeWhileCount(buf, ch)
                  data == [k \in 1..l |-> ClearBit8(buf[k])]
                  r == MuxSplit(Drop(buf, l), time_received)
              IN [events |-> <<UartData(ch_name, data, time_received)>> \o r.events,
                  rest |-> r.rest]

\* uart.read_buf returned Ok(len > 0) with the bytes of chunk
MuxRead(chunk) ==
    /\ mux_pc = "reading"
    /\ Len(wire) + Len(chunk) <= MaxWire
    /\ wire' = wire \o chunk
    /\ clock' = clock + 1
    /\ LET r == MuxSplit(mux_buf \o chunk, clock) IN
       IF r.events # <<>> /\ rec_pc # "running"
       THEN \* tx.send(..)? fails: the receiver is gone
            /\ mux_pc' = "failed_send"
            /\ mux_buf' = mux_buf \o chunk
            /\ UNCHANGED <<queue, sent>>
       ELSE /\ mux_pc' = "reading"
            /\ mux_buf' = r.rest
            /\ queue' = queue \o r.events
            /\ sent' = sent \o r.events
    /\ UNCHANGED <<file, werr, calls, io_fail, closed>>
    /\ UNCHANGED <<readerVars, bufVars, recVars, mainVars>>

\* uart.read_buf returned Ok(0)
MuxReadZero ==
    /\ mux_pc = "reading"
    /\ mux_pc' = "failed_zero"
    /\ UNCHANGED <<wire, mux_buf>>
    /\ UNCHANGED <<fileVars, readerVars, bufVars, chanVars, recVars, mainVars>>

\* uart.read_buf returned Err
MuxReadErr ==
    /\ mux_pc = "reading"
    /\ mux_pc' = "failed_io"
    /\ UNCHANGED <<wire, mux_buf>>
    /\ UNCHANGED <<fileVars, readerVars, bufVars, chanVars, recVars, mainVars>>

MuxNext ==
    \/ \E chunk \in MuxChunks : MuxRead(chunk)
    \/ MuxReadZero
    \/ MuxReadErr

(***************************************************************************)
(* read_uart, record_streams and main (src/main.rs), two-UART mode         *)
(***************************************************************************)
\* the byte record_streams looks for at the start of an event (EOT)
EOT == 4

\* number of events the two read_uart tasks send
MaxEvents == 3

\* the data of one read_uart event: uart.read_buf returned these bytes
EventData == {<<4>>, <<6>>, <<49>>, <<49, 4>>, <<4, 49, 50>>}

\* read_uart: uart.read_buf returned Ok(len > 0)
ReadUartOk(ch_name, data) ==
    /\ main_pc = "select"
    /\ Len(sent) < MaxEvents
    /\ clock' = clock + 1
    /\ IF rec_pc = "running"
       THEN /\ queue' = Append(queue, UartData(ch_name, data, clock))
            /\ sent' = Append(sent, UartData(ch_name, data, clock))
            /\ UNCHANGED <<closed, mainVars>>
       ELSE \* tx.send(..)? fails, the task returns Err and the select ends
            /\ main_pc' = "await" /\ res' = "send" /\ closed' = TRUE
            /\ at_drop' = [sent |-> Len(sent), deq |-> Len(deq)]
            /\ errs' = Append(errs, "send")
            /\ UNCHANGED <<queue, sent, muxed>>
    /\ UNCHANGED <<file, werr, calls, io_fail>>
    /\ UNCHANGED <<readerVars, bufVars, muxVars, recVars>>

\* the select of main ends with result r, "ok" or the error of a producer:
\* every future in it is dropped, and with them the senders
SelectEnds(r) ==
    /\ main_pc = "select"
    /\ main_pc' = "await" /\ res' = r /\ closed' = TRUE
    /\ at_drop' = [sent |-> Len(sent), deq |-> Len(deq)]
    /\ errs' = IF r = "ok" THEN errs ELSE Append(errs, r)
    /\ UNCHANGED <<queue, sent, muxed>>
    /\ UNCHANGED <<fileVars, readerVars, bufVars, muxVars, recVars>>

\* read_uart that sends the empty result of a zero-length read as an event
ReadUartZeroSends(ch_name) ==
    /\ main_pc = "select"
    /\ ReadUartOk(ch_name, <<>>)

\* read_uart that notes the zero-length read and goes on reading
ReadUartZeroRetry(ch_name) ==
    /\ main_pc = "select"
    /\ errs = <<>>
    /\ errs' = Append(errs, "zero")
    /\ UNCHANGED <<main_pc, res, at_drop, muxed>>
    /\ UNCHANGED <<fileVars, readerVars, bufVars, muxVars, chanVars, recVars>>

\* read_uart: uart.read_buf returned Ok(0), the task bails
ReadUartZero(ch_name) ==
    /\ main_pc = "select"
    /\ SelectEnds("zero")

\* read_uart: uart.read_buf returned Err
ReadUartErr(ch_name) ==
    /\ main_pc = "select"
    /\ SelectEnds("io")

\* tokio::signal::ctrl_c() completed
CtrlC ==
    /\ main_pc = "select"
    /\ SelectEnds("ok")

\* main that waits for the recorder and discards its result
MainAwaitKeepsRes ==
    /\ main_pc = "await" /\ rec_pc # "running"
    /\ main_pc' = "returned"
    /\ UNCHANGED <<res, at_drop, muxed, errs>>
    /\ UNCHANGED <<fileVars, readerVars, bufVars, muxVars, chanVars, recVars>>

\* await_task(&mut recorder).await? after the select
MainAwait ==
    /\ main_pc = "await" /\ rec_pc # "running"
    /\ main_pc' = "returned"
    /\ res' = IF rec_pc = "failed" THEN "write" ELSE res
    /\ UNCHANGED <<at_drop, muxed, errs>>
    /\ UNCHANGED <<fileVars, readerVars, bufVars, muxVars, chanVars, recVars>>

\* the condition under which record_streams writes the open run
FlushAlways(r) == TRUE

\* the condition without its r.is_err() part: the timeout writes nothing
FlushOnEventOnly(r) ==
    r.kind = "some" /\ (r.ev.ch_name # prev_ch \/ r.ev.data[1] = EOT)

\* the condition without its ch_name != prev_ch part
FlushOnTimeoutOrEOT(r) ==
    \/ r.kind = "elapsed"
    \/ r.kind = "some" /\ r.ev.data[1] = EOT

FlushNeeded(r) ==
    \/ r.kind = "elapsed"
    \/ r.kind = "some" /\ (r.ev.ch_name # prev_ch \/ r.ev.data[1] = EOT)

\* StoreEvent that stores the event's bytes twice
StoreEventTwice(buf, ev) ==
    IF buf = <<>>
    THEN [time |-> ev.time_received, prev_ch |-> ev.ch_name, buf |-> ev.data \o ev.data]
    ELSE [time |-> rec_time, prev_ch |-> prev_ch, buf |-> buf \o ev.data \o ev.data]

\* StoreEvent that stamps the run with the time of its newest event
StoreEventRestamps(buf, ev) ==
    IF buf = <<>>
    THEN [time |-> ev.time_received, prev_ch |-> ev.ch_name, buf |-> ev.data]
    ELSE [time |-> ev.time_received, prev_ch |-> prev_ch, buf |-> buf \o ev.data]

\* StoreEvent that always appends (buf.unsplit(data)), never opening a run
StoreEventAppend(buf, ev) ==
    [time |-> rec_time, prev_ch |-> prev_ch, buf |-> buf \o ev.data]

\* StoreEvent that puts the event's bytes in front of the open run
StoreEventPrepend(buf, ev) ==
    IF buf = <<>>
    THEN [time |-> ev.time_received, prev_ch |-> ev.ch_name, buf |-> ev.data]
    ELSE [time |-> rec_time, prev_ch |-> prev_ch, buf |-> ev.data \o buf]

\* what the run becomes when an event is stored
StoreEvent(buf, ev) ==
    IF buf = <<>>
    THEN [time |-> ev.time_received, prev_ch |-> ev.ch_name, buf |-> ev.data]
    ELSE [time |-> rec_time, prev_ch |-> prev_ch, buf |-> buf \o ev.data]

\* one iteration of the loop of record_streams; r is what the wait gave:
\* "elapsed" (the timeout), "some" (an event) or "none" (queue closed)
RecordStreamsIter(r) ==
    LET flush == rec_buf # <<>> /\ FlushNeeded(r)
        w == WriteResult(rec_buf, prev_ch, rec_time)
        buf1 == IF flush THEN <<>> ELSE rec_buf
    IN
    /\ rec_pc = "running"
    /\ IF flush
       THEN /\ file' = file \o w.recs
            /\ werr' = w.err
            /\ calls' = Append(calls, [ch |-> prev_ch, data |-> rec_buf, time |-> rec_time,
                                       first |-> Len(file) + 1, last |-> Len(file')])
       ELSE UNCHANGED <<file, werr, calls>>
    /\ IF flush /\ w.err
       THEN rec_pc' = "failed" /\ UNCHANGED <<prev_ch, rec_buf, rec_time>>
       ELSE CASE r.kind = "elapsed" ->
                    rec_buf' = buf1 /\ UNCHANGED <<prev_ch, rec_time, rec_pc>>
              [] r.kind = "none" ->
                    rec_pc' = "done" /\ rec_buf' = buf1 /\ UNCHANGED <<prev_ch, rec_time>>
              [] r.kind = "some" ->
                    LET n == StoreEvent(buf1, r.ev) IN
                    /\ rec_time' = n.time /\ prev_ch' = n.prev_ch /\ rec_buf' = n.buf
                    /\ UNCHANGED rec_pc
    /\ rec_last' = [r |-> r, pre_buf |-> rec_buf, pre_ch |-> prev_ch, pre_time |-> rec_time,
                    pre_file |-> file, pre_calls |-> Len(calls)]
    /\ errs' = IF flush /\ w.err THEN Append(errs, "write") ELSE errs
    /\ UNCHANGED <<clock, io_fail>>
    /\ UNCHANGED <<main_pc, res, at_drop, muxed>>
    /\ UNCHANGED <<readerVars, bufVars, muxVars>>

\* a receiver that hands out the newest event of the queue first
RecRecvNewest ==
    /\ queue # <<>>
    /\ RecordStreamsIter([kind |-> "some", ev |-> queue[Len(queue)]])
    /\ queue' = SubSeq(queue, 1, Len(queue) - 1)
    /\ deq' = Append(deq, queue[Len(queue)])
    /\ UNCHANGED <<sent, closed>>

\* rx.recv() gave Some(event), before the timeout if a run is open
RecRecv ==
    /\ queue # <<>>
    /\ RecordStreamsIter([kind |-> "some", ev |-> Head(queue)])
    /\ queue' = Tail(queue)
    /\ deq' = Append(deq, Head(queue))
    /\ UNCHANGED <<sent, closed>>

\* timeout(read_timeout, rx.recv()) gave Err(Elapsed): a run is open and no
\* event came for 5 ms
RecElapsed ==
    /\ rec_buf # <<>>
    /\ queue = <<>> /\ ~closed
    /\ RecordStreamsIter([kind |-> "elapsed"])
    /\ UNCHANGED <<chanVars, deq>>

\* a recorder that is stopped as soon as the senders are dropped, whatever
\* the queue still holds
RecClosedAtOnce ==
    /\ closed
    /\ RecordStreamsIter([kind |-> "none"])
    /\ UNCHANGED <<chanVars, deq>>

\* rx.recv() gave None: the queue is empty and every sender is dropped
RecClosed ==
    /\ queue = <<>> /\ closed
    /\ RecordStreamsIter([kind |-> "none"])
    /\ UNCHANGED <<chanVars, deq>>

RecNext ==
    \/ \E ch_name \in UartTxChannel, data \in EventData : ReadUartOk(ch_name, data)
    \/ \E ch_name \in UartTxChannel : ReadUartZero(ch_name)
    \/ \E ch_name \in UartTxChannel : ReadUartErr(ch_name)
    \/ CtrlC
    \/ RecRecv
    \/ RecElapsed
    \/ RecClosed
    \/ MainAwait

(***************************************************************************)
(* A capture session (main of src/main.rs) in either mode, on an output    *)
(* file that may stop taking writes                                        *)
(***************************************************************************)
\* the data of the read_uart events of a session
SessionData == {<<4>>, <<49>>}

\* the chunks uart.read_buf gives read_muxed_uart in a session
SessionChunks == {<<10>>, <<49>>, <<177>>, <<49, 177>>}

\* from now on every write to the output file fails (disk full, device gone)
IoBreaks ==
    /\ ~io_fail /\ main_pc # "returned"
    /\ io_fail' = TRUE
    /\ UNCHANGED <<file, werr, calls, clock>>
    /\ UNCHANGED <<readerVars, bufVars, muxVars, chanVars, recVars, mainVars>>

\* the first branch of the select: the recorder task has ended, main returns
\* its result at once and everything in the select is dropped
MainRecorderEnded ==
    /\ main_pc = "select" /\ rec_pc # "running"
    /\ main_pc' = "returned"
    /\ res' = IF rec_pc = "failed" THEN "write" ELSE "ok"
    /\ closed' = TRUE
    /\ at_drop' = [sent |-> Len(sent), deq |-> Len(deq)]
    /\ UNCHANGED <<queue, sent, muxed, errs>>
    /\ UNCHANGED <<fileVars, readerVars, bufVars, muxVars, recVars>>

\* read_muxed_uart inside the select ends with error r: the select ends
MuxedFails(pc, r) ==
    /\ mux_pc' = pc
    /\ main_pc' = "await" /\ res' = r /\ closed' = TRUE
    /\ at_drop' = [sent |-> Len(sent), deq |-> Len(deq)]
    /\ errs' = Append(errs, r)
    /\ UNCHANGED <<queue, sent, muxed>>

\* read_muxed_uart inside the select: uart.read_buf returned Ok(len > 0)
MuxedRead(chunk) ==
    /\ muxed /\ main_pc = "select" /\ mux_pc = "reading"
    /\ Len(wire) + Len(chunk) <= MaxWire
    /\ wire' = wire \o chunk
    /\ clock' = clock + 1
    /\ LET r == MuxSplit(mux_buf \o chunk, clock) IN
       IF r.events # <<>> /\ rec_pc # "running"
       THEN /\ MuxedFails("failed_send", "send")
            /\ mux_buf' = mux_buf \o chunk
       ELSE /\ mux_pc' = "reading"
            /\ mux_buf' = r.rest
            /\ queue' = queue \o r.events
            /\ sent' = sent \o r.events
            /\ UNCHANGED <<closed, mainVars>>
    /\ UNCHANGED <<file, werr, calls, io_fail>>
    /\ UNCHANGED <<readerVars, bufVars, recVars>>

\* read_muxed_uart inside the select: uart.read_buf returned Ok(0)
MuxedZero ==
    /\ muxed /\ main_pc = "select" /\ mux_pc = "reading"
    /\ MuxedFails("failed_zero", "zero")
    /\ UNCHANGED <<wire, mux_buf>>
    /\ UNCHANGED <<fileVars, readerVars, bufVars, recVars>>

\* read_muxed_uart inside the select: uart.read_buf returned Err
MuxedErr ==
    /\ muxed /\ main_pc = "select" /\ mux_pc = "reading"
    /\ MuxedFails("failed_io", "io")
    /\ UNCHANGED <<wire, mux_buf>>
    /\ UNCHANGED <<fileVars, readerVars, bufVars, recVars>>

SessionNext ==
    \/ ~muxed /\ \E ch_name \in UartTxChannel, data \in SessionData : ReadUartOk(ch_name, data)
    \/ ~muxed /\ \E ch_name \in UartTxChannel : ReadUartZero(ch_name)
    \/ ~muxed /\ \E ch_name \in UartTxChannel : ReadUartErr(ch_name)
    \/ \E chunk \in SessionChunks : MuxedRead(chunk)
    \/ MuxedZero
    \/ MuxedErr
    \/ CtrlC
    \/ RecRecv
    \/ RecElapsed
    \/ RecClosed
    \/ MainAwait
    \/ MainRecorderEnded
    \/ IoBreaks

(***************************************************************************)
(* Initial states of the parts                                             *)
(***************************************************************************)
FileIdle == file = <<>> /\ werr = FALSE /\ calls = <<>> /\ clock = 0 /\ io_fail = FALSE

ReaderIdle ==
    /\ written = [c \in UartTxChannel |-> <<>>]
    /\ opened = FALSE /\ pos = 0 /\ ctrl_buf = <<>> /\ node_buf = <<>>
    /\ rerr = FALSE
    /\ got = [c \in UartTxChannel |-> <<>>]
    /\ eos = [c \in UartTxChannel |-> FALSE]
    /\ replayed = <<>>

\* buf: UartBuf = UartBuf::new() in both handlers; no handler running
IrqIdle ==
    /\ irq_buf = [i \in {0, 1} |-> UartBufNew]
    /\ irq_pc = "idle"
    /\ irq_tail = [wr_pos |-> 0, len |-> 0]
    /\ irq_snap = UartBufNew
    /\ irq_who = 0
    /\ irq_n = 0
    /\ irq_halt = FALSE
    /\ usb = <<>>

BufIdle ==
    /\ ubuf = UartBufNew
    /\ panicked = FALSE
    /\ arrived = 0
    /\ nops = 0
    /\ last = [op |-> "new"]
    /\ IrqIdle

MuxIdle == wire = <<>> /\ mux_buf = <<>> /\ mux_pc = "reading"

ChanIdle == queue = <<>> /\ sent = <<>> /\ closed = FALSE

RecIdle ==
    /\ prev_ch = "Node" /\ rec_buf = <<>> /\ rec_time = 0
    /\ rec_pc = "running"
    /\ deq = <<>>
    /\ rec_last = [r |-> [kind |-> "start"], pre_buf |-> <<>>, pre_ch |-> "Node", pre_time |-> 0,
                   pre_file |-> <<>>, pre_calls |-> 0]

\* main at its select, in either mode
MainStart ==
    /\ main_pc = "select" /\ res = "ok" /\ at_drop = [sent |-> 0, deq |-> 0]
    /\ errs = <<>>
    /\ muxed \in BOOLEAN

\* main at its select in two-UART mode
MainIdle == MainStart /\ muxed = FALSE

Idle == FileIdle /\ ReaderIdle /\ BufIdle /\ MuxIdle /\ ChanIdle /\ RecIdle /\ MainIdle

\* the same with the mode, args.muxed, left open
SessionIdle == FileIdle /\ ReaderIdle /\ BufIdle /\ MuxIdle /\ ChanIdle /\ RecIdle /\ MainStart

(***************************************************************************)
(* The capture specification: write a capture, then read it back           *)
(***************************************************************************)
CapNext ==
    \/ \E length \in Lens, channel \in UartTxChannel : WriteCall(length, channel)
    \/ ReaderNew
    \/ \E ch \in UartTxChannel, max_len \in ReadLens : read_bytes(ch, max_len)
    \/ \E ch \in UartTxChannel, n \in ReadLens : reader_read(ch, n)

SpecCap == Idle /\ [][CapNext]_vars

(***************************************************************************)
(* The decoding specification: read a capture that another producer made   *)
(***************************************************************************)
SpecAlien == Idle /\ [][AlienNext]_vars

(***************************************************************************)
(* The staging-buffer specification: any sequence of UartBuf operations    *)
(***************************************************************************)
SpecBuf == Idle /\ [][BufNext]_vars

(***************************************************************************)
(* The interrupt specification: uart1_irq preempted by uart0_irq           *)
(***************************************************************************)
SpecIrq == Idle /\ [][IrqNext]_vars

(***************************************************************************)
(* The demultiplexer specification: read_muxed_uart on any muxed input     *)
(***************************************************************************)
SpecMux == Idle /\ [][MuxNext]_vars

(***************************************************************************)
(* The recorder specification: two read_uart tasks, record_streams, main   *)
(***************************************************************************)
SpecRec == Idle /\ [][RecNext]_vars

\* the data of the events when progress is checked: with and without EOT,
\* in first place and behind
LiveData == {<<4>>, <<49>>, <<49, 4>>}

RecLiveNext ==
    \/ \E ch_name \in UartTxChannel, data \in LiveData : ReadUartOk(ch_name, data)
    \/ \E ch_name \in UartTxChannel : ReadUartZero(ch_name)
    \/ \E ch_name \in UartTxChannel : ReadUartErr(ch_name)
    \/ CtrlC
    \/ RecRecv
    \/ RecElapsed
    \/ RecClosed
    \/ MainAwait

\* the same tasks under the scheduling tokio gives the recorder task: a
\* queued event is received, and the 5 ms timer of timeout(read_timeout, ..)
\* fires when no event comes
SpecRecLive == Idle /\ [][RecLiveNext]_vars /\ WF_vars(RecRecv) /\ WF_vars(RecElapsed)

(***************************************************************************)
(* The session specification: main in either mode, with failing writes     *)
(***************************************************************************)
SpecMain == SessionIdle /\ [][SessionNext]_vars

(***************************************************************************)
(* Properties of the capture writer and reader                             *)
(***************************************************************************)
IsPrefix(s, t) == Len(s) <= Len(t) /\ SubSeq(t, 1, Len(s)) = s

\* the payloads of the first n records of the file that carry channel's
\* port pair, concatenated in file order
RECURSIVE TaggedPayload(_, _)
TaggedPayload(n, channel) ==
    IF n = 0 THEN <<>>
    ELSE IF file[n].sport = Endpoints(channel).sport /\ file[n].dport = Endpoints(channel).dport
         THEN TaggedPayload(n - 1, channel) \o file[n].payload
         ELSE TaggedPayload(n - 1, channel)

\* C1 (round trip): once a channel has been read to its end of stream, the
\* bytes the reads returned for it are exactly the data of all the write
\* calls for that channel, concatenated in call order, however the data were
\* chunked into records and however the reads of the two channels interleave.
C1_RoundTrip ==
    \A ch \in UartTxChannel :
        (opened /\ eos[ch]) => (~rerr /\ ~werr /\ got[ch] = written[ch])

\* both channels written, one run longer than a record, both read to the end
C1_Witness ==
    /\ eos["Ctrl"] /\ eos["Node"]
    /\ \E i \in 1..Len(calls) : Len(calls[i].data) > MAX_PAYLOAD
    /\ got["Ctrl"] # <<>> /\ got["Node"] # <<>>
    /\ got = written

\* C3 (channel isolation): at every point, the bytes returned so far for a
\* channel are a prefix of the payloads of the records tagged with that
\* channel's port pair: no read hands out a byte of the other channel's records.
C3_ChannelIsolation ==
    \A ch \in UartTxChannel :
        IsPrefix(got[ch], TaggedPayload(Len(file), ch))

\* interleaved records, both channels partly read, other channel's bytes buffered
C3_Witness ==
    /\ Len(file) >= 2 /\ file[1].sport # file[2].sport
    /\ got["Ctrl"] # <<>> /\ got["Node"] # <<>>
    /\ ~eos["Ctrl"] /\ ~eos["Node"]
    /\ (ctrl_buf # <<>> \/ node_buf # <<>>)

\* ceil(n / d)
CeilDiv(n, d) == (n + d - 1) \div d

\* C4 (chunking transparency): every write_packet_time call with a run of
\* L >= 1 bytes appended exactly ceil(L / MAX_PAYLOAD) records (4 for
\* L = 3 * MAX_PAYLOAD + 7), each with 1..MAX_PAYLOAD payload bytes and the
\* call's channel, whose payloads concatenated in file order are the run.
C4_Chunking ==
    \A i \in 1..Len(calls) :
        LET c == calls[i]
            L == Len(c.data)
            recs == SubSeq(file, c.first, c.last)
        IN L >= 1 =>
            /\ MAX_PAYLOAD = 168
            /\ Len(recs) = CeilDiv(L, MAX_PAYLOAD)
            /\ (L = 3 * MAX_PAYLOAD + 7 => Len(recs) = 4)
            /\ \A k \in 1..Len(recs) :
                  /\ Len(recs[k].payload) \in 1..MAX_PAYLOAD
                  /\ ChannelOfPort(recs[k].sport) = c.ch
                  /\ recs[k].sport = Endpoints(c.ch).sport
                  /\ recs[k].dport = Endpoints(c.ch).dport
            /\ Concat([k \in 1..Len(recs) |-> recs[k].payload]) = c.data

\* the run of 3 * MAX_PAYLOAD + 7 bytes was written, as four records
C4_Witness ==
    \E i \in 1..Len(calls) :
        /\ Len(calls[i].data) = 3 * MAX_PAYLOAD + 7
        /\ calls[i].last - calls[i].first + 1 = 4

(***************************************************************************)
(* Properties of the staging buffer                                        *)
(***************************************************************************)
\* the last n elements of s
LastN(s, n) == SubSeq(s, Len(s) - Min(n, Len(s)) + 1, Len(s))

\* C7 (StagingBuffer invariant): after every UartBuf operation
\* read_pos + len <= capacity (20), so that the unconsumed content
\* data[read_pos .. read_pos + len] is a slice of len bytes inside data.
C7_BufInvariant ==
    /\ Len(ubuf.data) = Capacity /\ Capacity = 20
    /\ ubuf.read_pos >= 0 /\ ubuf.len >= 0
    /\ ubuf.read_pos + ubuf.len <= Capacity
    /\ Len(Deref(ubuf)) = ubuf.len

\* tail_slice had to drop bytes of a buffer that ends at the end of data
C7_Witness ==
    /\ ~panicked
    /\ last.op = "tail_slice" /\ last.pre.free < last.min_cap
    /\ ubuf.read_pos > 0 /\ ubuf.len > 0
    /\ ubuf.read_pos + ubuf.len = Capacity

\* C8 (no unconsumed byte lost), as claimed: whenever the free space, tail
\* plus consumed prefix, suffices, write leaves the old content followed by
\* the written bytes, tail_slice leaves the content as it was and returns a
\* slice of at least min_cap bytes, and incr_len after it adds the stored bytes.
C8_NoByteLost ==
    /\ (last.op = "write" /\ Len(last.bytes) <= last.pre.free)
          => (~panicked /\ Deref(ubuf) = last.pre.content \o last.bytes)
    /\ (last.op = "tail_slice" /\ last.min_cap <= last.pre.free)
          => (~panicked /\ last.slice_len >= last.min_cap
              /\ Deref(ubuf) = last.pre.content)
    /\ (/\ last.op = "incr_len" /\ last.after.op = "tail_slice"
        /\ last.after.min_cap <= last.after.pre.free
        /\ last.new = Len(last.after.bytes))
          => Deref(ubuf) = last.after.pre.content \o last.after.bytes

\* C9 (overflow policy), as claimed: a write that does not fit even after
\* compaction leaves the last min(capacity, old_len + n) bytes of the old
\* content followed by the written bytes.
C9_OverflowKeepsNewest ==
    (last.op = "write" /\ Len(last.bytes) > last.pre.free)
        => (/\ ~panicked
            /\ Deref(ubuf) = LastN(last.pre.content \o last.bytes,
                                   Min(Capacity, Len(last.pre.content) + Len(last.bytes))))

(***************************************************************************)
(* Properties of read_muxed_uart                                           *)
(***************************************************************************)
\* a byte with bit 7 cleared
Strip7(b) == IF b >= 128 THEN b - 128 ELSE b

\* the channel bit 7 stands for
TagChannel(b) == IF b >= 128 THEN "Ctrl" ELSE "Node"

\* number of wire bytes that the events before the k-th one carry
RECURSIVE Off(_)
Off(k) == IF k <= 1 THEN 0 ELSE Off(k - 1) + Len(sent[k - 1].data)

\* the wire byte behind the i-th payload byte of the k-th event
Origin(k, i) == wire[Off(k) + i]

\* the original untagged bytes of a channel in w: markers removed, bit 7 cleared
RECURSIVE Untagged(_, _)
Untagged(w, ch) ==
    IF w = <<>> THEN <<>>
    ELSE IF Head(w) # TRIG_BYTE /\ TagChannel(Head(w)) = ch
         THEN <<Strip7(Head(w))>> \o Untagged(Tail(w), ch)
         ELSE Untagged(Tail(w), ch)

\* the payloads of the first n events sent for a channel, concatenated
RECURSIVE Emitted(_, _)
Emitted(n, ch) ==
    IF n = 0 THEN <<>>
    ELSE IF sent[n].ch_name = ch THEN Emitted(n - 1, ch) \o sent[n].data
         ELSE Emitted(n - 1, ch)

\* the payload bytes of the k-th event that were not markers on the wire
RECURSIVE DataOf(_, _)
DataOf(k, i) ==
    IF i = 0 THEN <<>>
    ELSE IF Origin(k, i) # TRIG_BYTE THEN DataOf(k, i - 1) \o <<sent[k].data[i]>>
         ELSE DataOf(k, i - 1)

\* the same for the first n events of a channel
RECURSIVE EmittedData(_, _)
EmittedData(n, ch) ==
    IF n = 0 THEN <<>>
    ELSE IF sent[n].ch_name = ch
         THEN EmittedData(n - 1, ch) \o DataOf(n, Len(sent[n].data))
         ELSE EmittedData(n - 1, ch)

RECURSIVE AllPayload(_)
AllPayload(n) == IF n = 0 THEN <<>> ELSE AllPayload(n - 1) \o sent[n].data

\* the wire without the bytes still held in buf
Consumed == SubSeq(wire, 1, Len(wire) - Len(mux_buf))

RECURSIVE Dequeued(_, _)
Dequeued(n, ch) ==
    IF n = 0 THEN <<>>
    ELSE IF deq[n].ch_name = ch THEN Dequeued(n - 1, ch) \o deq[n].data
         ELSE Dequeued(n - 1, ch)

\* C2 (session end), as claimed: when the queue is closed while a run is
\* open, the recorder writes the run before it returns Ok(()); once it has
\* returned Ok(()), every byte it received is in the capture file.
C2_SessionEndFlush ==
    /\ (rec_last.r.kind = "none" /\ rec_last.pre_buf # <<>>)
          => file = rec_last.pre_file
                      \o WriteResult(rec_last.pre_buf, rec_last.pre_ch, rec_last.pre_time).recs
    /\ rec_pc = "done"
          => \A ch \in UartTxChannel : TaggedPayload(Len(file), ch) = Dequeued(Len(deq), ch)

\* the last iteration received an event of the open run's channel
SameChannelEvent ==
    /\ rec_last.r.kind = "some"
    /\ rec_last.pre_buf # <<>>
    /\ rec_last.r.ev.ch_name = rec_last.pre_ch

NewRecords == SubSeq(file, Len(rec_last.pre_file) + 1, Len(file))

\* the last iteration wrote the run it found open, and nothing else, with
\* exactly one write_packet_time call
WroteOpenRun ==
    /\ Len(calls) = rec_last.pre_calls + 1
    /\ calls[Len(calls)].ch = rec_last.pre_ch
    /\ calls[Len(calls)].data = rec_last.pre_buf
    /\ calls[Len(calls)].time = rec_last.pre_time
    /\ SubSeq(file, 1, Len(rec_last.pre_file)) = rec_last.pre_file
    /\ NewRecords # <<>>
    /\ \A k \in 1..Len(NewRecords) :
          /\ NewRecords[k].sport = (IF rec_last.pre_ch = "Ctrl" THEN 422 ELSE 1422)
          /\ NewRecords[k].time = rec_last.pre_time
    /\ Concat([k \in 1..Len(NewRecords) |-> NewRecords[k].payload]) = rec_last.pre_buf

\* the last iteration received an event of the other channel with a run open
ChannelSwitch ==
    /\ rec_last.r.kind = "some"
    /\ rec_last.pre_buf # <<>>
    /\ rec_last.r.ev.ch_name # rec_last.pre_ch

\* C11 (channel switch): an event on the other channel makes record_streams
\* write the whole open run with the run's channel, by exactly one
\* write_packet_time call and without the event's bytes, and then start a new
\* run that is exactly the event: its bytes, its channel, its time.
C11_ChannelSwitchFlush ==
    ChannelSwitch
        => /\ WroteOpenRun
           /\ rec_buf = rec_last.r.ev.data
           /\ prev_ch = rec_last.r.ev.ch_name
           /\ rec_time = rec_last.r.ev.time_received

\* a Ctrl run of two events was written when a Node event came
C11_Witness ==
    /\ ChannelSwitch
    /\ rec_last.pre_ch = "Ctrl" /\ prev_ch = "Node"
    /\ Len(deq) = 3 /\ rec_last.pre_buf = deq[1].data \o deq[2].data
    /\ file # <<>> /\ file[Len(file)].payload = rec_last.pre_buf

\* a run is open in the running recorder
OpenRun == rec_pc = "running" /\ rec_buf # <<>>

\* what the timeout and the first event after it leave behind
TimeoutFlushed ==
    /\ rec_last.r.kind = "elapsed"
          => (rec_last.pre_buf # <<>> /\ WroteOpenRun /\ rec_buf = <<>>)
    /\ (rec_last.r.kind = "some" /\ rec_last.pre_buf = <<>>)
          => /\ file = rec_last.pre_file
             /\ rec_buf = rec_last.r.ev.data
             /\ prev_ch = rec_last.r.ev.ch_name
             /\ rec_time = rec_last.r.ev.time_received

\* C12 (timeout flush): when no event is received within read_timeout while
\* a run is open, the run is written as it is, as a record of its own, and no
\* run is open afterwards, so that the next event, same channel or not, starts
\* a new run; and as long as the senders are not dropped, every open run is
\* eventually written.
C12_TimeoutFlush ==
    /\ []TimeoutFlushed
    /\ (OpenRun ~> (rec_buf = <<>> \/ closed))

\* two records of one channel in a row, parted by the timeout alone: the
\* second does not begin with EOT
C12_Witness ==
    /\ Len(file) = 2
    /\ file[1].sport = file[2].sport
    /\ file[2].payload[1] # 4
    /\ rec_last.r.kind = "elapsed" /\ rec_buf = <<>>

RECURSIVE AllDequeued(_)
AllDequeued(n) == IF n = 0 THEN <<>> ELSE AllDequeued(n - 1) \o deq[n].data

RECURSIVE AllFlushed(_)
AllFlushed(n) == IF n = 0 THEN <<>> ELSE AllFlushed(n - 1) \o calls[n].data

\* the three events of the scenario, as (channel, bytes)
ScenarioEvents == << <<"Ctrl", <<4, 49, 50>> >>, <<"Node", <<6>> >>, <<"Ctrl", <<4>> >> >>

FreshReader == [pos |-> 0, ctrl |-> <<>>, node |-> <<>>, err |-> FALSE]

C14_DropThenDrain ==
    /\ closed <=> main_pc # "select"
    /\ ~closed => (rec_pc = "running" /\ at_drop = [sent |-> 0, deq |-> 0])
    /\ closed => at_drop.sent = Len(sent)
    /\ main_pc = "returned" => rec_pc # "running"
    /\ (rec_pc = "done" \/ rec_last.r.kind = "none") => (closed /\ queue = <<>> /\ deq = sent)

\* Ctrl-C came with two events still queued; the recorder received them,
\* stopped, and main returned
C14_Witness ==
    /\ main_pc = "returned" /\ res = "ok" /\ rec_pc = "done"
    /\ at_drop.sent - at_drop.deq >= 2
    /\ deq = sent

\* C15 (queue ordering): the events received followed by the events queued
\* are the events sent, in send order: none dropped, none duplicated, none
\* overtaken, whichever producer sent them; so the events are received in
\* strictly increasing send time, those of one producer among them.
C15_QueueFifo ==
    /\ sent = deq \o queue
    /\ \A i, j \in 1..Len(deq) : i < j => deq[i].time_received < deq[j].time_received
    /\ \A ch \in UartTxChannel :
          SelectSeq(deq, LAMBDA e : e.ch_name = ch)
            = SubSeq(SelectSeq(sent, LAMBDA e : e.ch_name = ch), 1,
                     Len(SelectSeq(deq, LAMBDA e : e.ch_name = ch)))

\* events of both producers wait in the queue behind one already received
C15_Witness ==
    /\ Len(deq) >= 1 /\ Len(queue) >= 2
    /\ queue[1].ch_name # queue[2].ch_name
    /\ deq[1].ch_name = queue[2].ch_name

(***************************************************************************)
(* Properties of the reader's pull interface and of the channel encoding   *)
(***************************************************************************)
\* the channel a record's source port stands for
PortChannel(rec) ==
    IF rec.sport = 422 THEN "Ctrl"
    ELSE IF rec.sport = 1422 \/ rec.sport = 1442 THEN "Node"
    ELSE "none"

\* the payloads of the records a..b of a channel, concatenated in file order
RECURSIVE SpanPayload(_, _, _)
SpanPayload(a, b, ch) ==
    IF b < a THEN <<>>
    ELSE IF PortChannel(file[b]) = ch THEN SpanPayload(a, b - 1, ch) \o file[b].payload
         ELSE SpanPayload(a, b - 1, ch)

BufOf(ch) == IF ch = "Ctrl" THEN ctrl_buf ELSE node_buf

Other(ch) == IF ch = "Ctrl" THEN "Node" ELSE "Ctrl"

\* the records after pos that hold a byte for ch
Holding(ch) ==
    {k \in (pos + 1)..Len(file) : PortChannel(file[k]) = ch /\ file[k].payload # <<>>}

\* the file position at which a pull for ch stops
PullStop(ch) ==
    IF BufOf(ch) # <<>> THEN pos
    ELSE IF Holding(ch) = {} THEN Len(file)
    ELSE CHOOSE k \in Holding(ch) : \A j \in Holding(ch) : k <= j

\* what a read of ch for max_len bytes has to do to the reader
PullContract(ch, max_len) ==
    LET q == PullStop(ch)
        full == BufOf(ch) \o SpanPayload(pos + 1, q, ch)
        n == IF max_len < Len(full) THEN max_len ELSE Len(full)
        out == SubSeq(full, 1, n)
        held == IF ch = "Ctrl" THEN ctrl_buf' ELSE node_buf'
        kept == IF ch = "Ctrl" THEN node_buf' ELSE ctrl_buf'
    IN /\ pos' = q
       /\ ~rerr'
       /\ got' = [got EXCEPT ![ch] = @ \o out]
       /\ held = SubSeq(full, n + 1, Len(full))
       /\ kept = BufOf(Other(ch)) \o SpanPayload(pos + 1, q, Other(ch))
       /\ (max_len > 0 /\ got' = got) => (BufOf(ch) = <<>> /\ Holding(ch) = {})
       /\ (max_len > 0 /\ BufOf(ch) = <<>> /\ Holding(ch) = {}) => got' = got

\* C16 (reader pull contract): every read_bytes(ch, max_len), and every read
\* through reader(ch), pulls records in file order only when ch's buffer is
\* empty, up to the first record that holds a byte for ch or to the end of
\* the file, appending each payload to the buffer of the record's channel;
\* it returns the first min(max_len, buffered) bytes of ch's buffer and
\* removes exactly those; with max_len > 0 the result is empty exactly when
\* neither the buffer nor the rest of the file holds a byte for ch.
C16_PullContract ==
    [][\A ch \in UartTxChannel, max_len \in ReadLens :
           (read_bytes(ch, max_len) \/ reader_read(ch, max_len))
               => PullContract(ch, max_len)]_vars

\* a read for Ctrl pulled the Node record in front of the first Ctrl record
\* into the Node buffer and returned the Ctrl record's payload
C16_Witness ==
    /\ Len(file) >= 3 /\ PortChannel(file[1]) = "Node" /\ PortChannel(file[2]) = "Ctrl"
    /\ pos = 2
    /\ node_buf = file[1].payload /\ got["Node"] = <<>>
    /\ got["Ctrl"] = file[2].payload /\ ctrl_buf = <<>>

\* C17 (the other channel's bytes are kept): for each channel, the bytes
\* returned, the bytes buffered and the payloads of the records not yet
\* pulled make up, in this order, everything written for the channel; so
\* when one channel has been read to its end, the other channel's bytes are
\* all in its buffer or returned, and reading it to its end yields all of
\* them in order.
C17_OtherChannelKept ==
    (opened /\ ~rerr) =>
        /\ \A ch \in UartTxChannel :
              got[ch] \o BufOf(ch) \o SpanPayload(pos + 1, Len(file), ch) = written[ch]
        /\ \A ch \in UartTxChannel :
              (eos[ch] /\ BufOf(ch) = <<>>) =>
                  /\ pos = Len(file)
                  /\ got[Other(ch)] \o BufOf(Other(ch)) = written[Other(ch)]
        /\ (eos["Ctrl"] /\ eos["Node"]) =>
              \A ch \in UartTxChannel :
                  got[ch] = written[ch] /\ (written[ch] # <<>> => got[ch] # <<>>)

\* Ctrl was read to its end first, past the Node record written before it;
\* then Node was read to its end
C17_Witness ==
    /\ Len(calls) = 2 /\ calls[1].ch = "Node" /\ calls[2].ch = "Ctrl"
    /\ calls[1].data # <<>> /\ calls[2].data # <<>>
    /\ eos["Ctrl"] /\ eos["Node"]
    /\ got["Ctrl"] = calls[2].data /\ got["Node"] = calls[1].data

\* C19 (channel encoding): every record of a Ctrl write carries the ports
\* (422, 1422) and every record of a Node write the swapped pair (1422, 422),
\* the two pairs differ, and next_packet decodes every record the writer
\* produced to the channel it was written with, with its payload.
C19_ChannelEncoding ==
    /\ <<Endpoints("Ctrl").sport, Endpoints("Ctrl").dport>> = <<422, 1422>>
    /\ <<Endpoints("Node").sport, Endpoints("Node").dport>> = <<1422, 422>>
    /\ \A i \in 1..Len(calls) :
          \A k \in calls[i].first..calls[i].last :
              /\ <<file[k].sport, file[k].dport>>
                    = (IF calls[i].ch = "Ctrl" THEN <<422, 1422>> ELSE <<1422, 422>>)
              /\ NextPacket(k - 1).kind = "pkt"
              /\ NextPacket(k - 1).ch = calls[i].ch
              /\ NextPacket(k - 1).data = file[k].payload

\* a capture with records of both channels
C19_Witness ==
    /\ \E k \in 1..Len(file) : NextPacket(k - 1).kind = "pkt" /\ NextPacket(k - 1).ch = "Ctrl"
    /\ \E k \in 1..Len(file) : NextPacket(k - 1).kind = "pkt" /\ NextPacket(k - 1).ch = "Node"
    /\ Len(calls) = 2 /\ calls[1].ch # calls[2].ch

\* the UDP port pair of a record is one of the channel assignments
KnownPair(rec) ==
    \/ (rec.sport = 422 /\ rec.dport = 1422)
    \/ (rec.sport = 1422 /\ rec.dport = 422)
    \/ rec.sport = 1442

\* the number of records that were decoded: all that were pulled, but the
\* failing one
Decoded == IF rerr THEN pos - 1 ELSE pos

C20_LegacyAlias ==
    /\ \A k \in 1..Len(file) :
          (file[k].sport \in {1422, 1442} /\ file[k].proto = "udp")
              => NextPacket(k - 1) = [kind |-> "pkt", ch |-> "Node",
                                      data |-> file[k].payload, time |-> file[k].time]
    /\ \A k \in 1..Decoded : file[k].sport = 1442 => file[k].proto = "udp"
    /\ opened =>
          got["Node"] \o node_buf
              = Concat([k \in 1..Decoded |->
                          IF file[k].sport \in {1422, 1442} THEN file[k].payload ELSE <<>>])
    /\ (opened /\ ~rerr /\ eos["Node"]) =>
          got["Node"]
              = Concat([k \in 1..Len(file) |->
                          IF file[k].sport \in {1422, 1442} THEN file[k].payload ELSE <<>>])

\* a legacy record and a Node record, both read by the Node reader to the end
C20_Witness ==
    /\ Len(file) = 3
    /\ file[1].sport = 1442 /\ file[2].sport = 422 /\ file[3].sport = 1422
    /\ eos["Node"] /\ ~rerr
    /\ got["Node"] = file[1].payload \o file[3].payload

(***************************************************************************)
(* Properties of write_packet_time                                         *)
(***************************************************************************)
\* C21 (one call, one channel, one timestamp): the records of a call with a
\* run longer than MAX_PAYLOAD are a function of the call's arguments alone:
\* the k-th of them holds the bytes 168 (k - 1) + 1 .. 168 k of the run, and
\* all carry the call's channel (addresses and ports) and the call's time.
C21_OneCallOneTag ==
    \A i \in 1..Len(calls) :
        LET c == calls[i]
            L == Len(c.data)
            n == c.last - c.first + 1
        IN L > MAX_PAYLOAD =>
            /\ n >= 2 /\ 168 * (n - 1) < L /\ L <= 168 * n
            /\ \A k \in 1..n :
                  LET rec == file[c.first + k - 1] IN
                  /\ rec.payload = SubSeq(c.data, 168 * (k - 1) + 1,
                                           IF 168 * k < L THEN 168 * k ELSE L)
                  /\ rec.time = c.time
                  /\ rec.proto = "udp"
                  /\ <<rec.sport, rec.dport>>
                        = (IF c.ch = "Ctrl" THEN <<422, 1422>> ELSE <<1422, 422>>)
                  /\ <<rec.ip_src, rec.ip_dst>>
                        = (IF c.ch = "Ctrl" THEN << <<127, 0, 0, 1>>, <<127, 0, 0, 2>> >>
                           ELSE << <<127, 0, 0, 2>>, <<127, 0, 0, 1>> >>)

\* a Node run one byte longer than a record, written after another call
C21_Witness ==
    /\ Len(calls) = 2
    /\ calls[2].ch = "Node" /\ Len(calls[2].data) = MAX_PAYLOAD + 1
    /\ calls[2].last = calls[2].first + 1
    /\ calls[2].time > calls[1].time
    /\ Len(file[calls[2].last].payload) = 1

\* C22 (empty write): a write_packet_time call with empty data appends no
\* record, leaves the file as it was and returns Ok.
C22_EmptyWriteNoOp ==
    [][(Len(calls') = Len(calls) + 1 /\ calls'[Len(calls')].data = <<>>)
          => (file' = file /\ ~werr')]_vars

\* an empty write, then a write whose records are the first of the file
C22_Witness ==
    /\ Len(calls) = 2
    /\ calls[1].data = <<>> /\ calls[1].last = 0
    /\ calls[2].data # <<>> /\ calls[2].first = 1 /\ Len(file) = calls[2].last
    /\ ~werr

(***************************************************************************)
(* Properties of decode errors                                             *)
(***************************************************************************)
\* a record next_packet can decode: an IP packet with a UDP header whose
\* source port is 422, 1422 or 1442
Decodable(rec) == rec.proto = "udp" /\ rec.sport \in {422, 1422, 1442}

\* C29 (decode error is fatal): next_packet returns an error for a record
\* that is corrupt, has no UDP header or has an unrecognized source port; a
\* read that met such a record has failed, and the bytes returned and
\* buffered are those of the records before it only; the replay processed
\* only records that precede every failing record, and its failing turn is
\* its last.
C29_DecodeErrorFatal ==
    /\ \A k \in 1..Len(file) :
          ~Decodable(file[k]) => NextPacket(k - 1) = [kind |-> "err"]
    /\ rerr =>
          /\ pos >= 1 /\ ~Decodable(file[pos])
          /\ \A j \in 1..(pos - 1) : Decodable(file[j])
          /\ \A ch \in UartTxChannel :
                Len(got[ch]) + Len(BufOf(ch))
                    = 2 * Cardinality({j \in 1..(pos - 1) : PortChannel(file[j]) = ch})
    /\ \A k \in 1..Len(replayed) :
          /\ replayed[k] = "pkt" => \A j \in 1..k : Decodable(file[j])
          /\ replayed[k] = "err" => (k = Len(replayed) /\ ~Decodable(file[k]))

\* a capture of a good record, a corrupt one and another good one: the read
\* of Ctrl returned the first record and a later read failed on the second,
\* and the replay stopped at the second record
C29_Witness ==
    /\ Len(file) = 3
    /\ file[2].proto = "corrupt" /\ Decodable(file[1]) /\ Decodable(file[3])
    /\ rerr /\ pos = 2
    /\ got["Ctrl"] = file[1].payload
    /\ replayed = <<"pkt", "err">>

(***************************************************************************)
(* Properties of UartBuf::consume and of overflow                          *)
(***************************************************************************)
\* C26 (consume): a consume(n) step advances read_pos by k = min(n, len) and
\* reduces len by k; the content afterwards is the content before without
\* its first k bytes, and data is unchanged.
C26_ConsumeAdvances ==
    [][(last'.op = "consume" /\ nops' = nops + 1) =>
          LET n == last'.n
              k == IF n < ubuf.len THEN n ELSE ubuf.len
          IN /\ ubuf'.read_pos = ubuf.read_pos + k
             /\ ubuf'.len = ubuf.len - k
             /\ Deref(ubuf') = SubSeq(Deref(ubuf), k + 1, ubuf.len)
             /\ ubuf'.data = ubuf.data]_vars

\* consume(20) on 10 bytes that did not start at offset 0: the clamp acted
\* and the cursor stands behind the bytes that were held
C26_Witness ==
    /\ last.op = "consume" /\ last.n = 20
    /\ Len(last.pre.content) = 10
    /\ ubuf.len = 0 /\ ubuf.read_pos = last.pre.read_pos + 10
    /\ ubuf.read_pos > 10

\* C27 (overflow observable), as claimed: after a write that was given more
\* bytes than the buffer had free and that returned, the buffer differs
\* from the one a caller gets who wrote only the bytes now held, none of
\* them dropped, to a new buffer (write returns (), so the buffer is all
\* the caller has).
C27_OverflowObservable ==
    (last.op = "write" /\ ~panicked /\ Len(last.bytes) > last.pre.free)
        => ubuf # write(UartBufNew, Deref(ubuf)).b

C28_OneOwner ==
    /\ [](irq_buf[1] = irq_snap)
    /\ [][/\ irq_buf'[1] # irq_buf[1] => irq_who' = 1
          /\ irq_buf'[0] # irq_buf[0] => irq_who' = 0]_vars

\* uart1_irq stands between its serial.write and its incr_len, holding one
\* byte in its tail, when uart0_irq preempts it and stores and forwards a
\* byte of its own
C28_Witness ==
    /\ irq_pc = "untag" /\ irq_who = 0
    /\ irq_tail = [wr_pos |-> 0, len |-> 1]
    /\ usb = <<177, 50>>
    /\ irq_buf[1].data[1] = 177 /\ irq_buf[1].len = 0
    /\ irq_buf[0].data[1] = 50 /\ irq_buf[0].len = 1

(***************************************************************************)
(* Properties of the errors of a session                                   *)
(***************************************************************************)
\* position of the first e in seq, 0 if there is none
RECURSIVE IndexOf(_, _)
IndexOf(seq, e) ==
    IF seq = <<>> THEN 0
    ELSE IF Head(seq) = e THEN 1
    ELSE LET i == IndexOf(Tail(seq), e) IN IF i = 0 THEN 0 ELSE i + 1

\* C23 (zero-length read): once a read of a UART has returned 0 bytes, in
\* either mode, the reading task has ended with an error and main has left
\* its select with it: the senders are dropped, no event has been sent since
\* (and none for the read: every event sent holds data), main holds the
\* error while it waits for the recorder, and main returns an error.
C23_ZeroReadIsError ==
    /\ \A k \in 1..Len(sent) : sent[k].data # <<>>
    /\ IndexOf(errs, "zero") # 0 =>
          /\ main_pc \in {"await", "returned"}
          /\ closed
          /\ Len(sent) = at_drop.sent
          /\ muxed => mux_pc = "failed_zero"
          /\ main_pc = "await" => res = "zero"
          /\ main_pc = "returned" => res \in {"zero", "write"}

\* in muxed mode an event was sent, then a read returned 0 bytes; main has
\* returned that error after the recorder drained the queue and stopped
C23_Witness ==
    /\ muxed /\ mux_pc = "failed_zero"
    /\ Len(sent) = 1 /\ Len(deq) = 1
    /\ errs = <<"zero">>
    /\ main_pc = "returned" /\ res = "zero" /\ rec_pc = "done"

\* C24 (failed write is fatal): once write_packet_time has failed in
\* record_streams the recorder has stopped: the failed call is the last
\* call and the file ends with what that call wrote before it failed, the
\* run it tried to write is still the recorder's run, and when main has
\* returned it has returned the recorder's error.
C24_WriteErrorFatal ==
    /\ rec_pc = "failed" <=> IndexOf(errs, "write") # 0
    /\ rec_pc = "failed" =>
          /\ werr
          /\ Len(calls) = rec_last.pre_calls + 1
          /\ calls[Len(calls)].first = Len(rec_last.pre_file) + 1
          /\ calls[Len(calls)].last = Len(file)
          /\ SubSeq(file, 1, Len(rec_last.pre_file)) = rec_last.pre_file
          /\ rec_buf = rec_last.pre_buf /\ calls[Len(calls)].data = rec_buf
          /\ main_pc = "returned" => res = "write"

\* the file broke with a run open and events queued; the recorder failed on
\* its first write and left an event in the queue; main, stopped by ctrl-c,
\* returned the recorder's error
C24_Witness ==
    /\ io_fail /\ rec_pc = "failed"
    /\ file = <<>> /\ Len(calls) = 1
    /\ queue # <<>>
    /\ errs = <<"write">>
    /\ main_pc = "returned" /\ res = "write"
    /\ Len(sent) = 3 /\ at_drop.sent = 3

\* C25 (first error), as claimed: when a task of the session has failed, the
\* error main returns is the first error that occurred.
C25_FirstErrorReturned ==
    (main_pc = "returned" /\ errs # <<>>) => res = errs[1]

(***************************************************************************)
(* Properties of the runs of read_muxed_uart                               *)
(***************************************************************************)
\* s holds marker bytes only
AllMarkers(s) == \A i \in 1..Len(s) : s[i] = TRIG_BYTE

\* the bytes a step appends to the wire
NewWire == SubSeq(wire', Len(wire) + 1, Len(wire'))

\* the events a step sends
NewSent == SubSeq(sent', Len(sent) + 1, Len(sent'))

\* C31 (run splitting): a read that completes and whose buffer (the bytes
\* held back plus the bytes read) holds a byte that is not the marker emits
\* runs that, in order, are the whole buffer with bit 7 cleared; every run is
\* non-empty and holds a non-marker byte, the non-marker bytes of a run all
\* have the run's channel, a run after the first begins with a non-marker
\* byte, and consecutive runs have different channels (so every run is the
\* longest possible one).
C31_RunSplitting ==
    [][(wire' # wire /\ mux_pc' = "reading" /\ ~AllMarkers(mux_buf \o NewWire)) =>
          LET buf == mux_buf \o NewWire
              new == NewSent
              start(j) == Len(Concat([m \in 1..(j - 1) |-> new[m].data]))
          IN /\ new # <<>>
             /\ Concat([j \in 1..Len(new) |-> new[j].data])
                    = [i \in 1..Len(buf) |-> buf[i] % 128]
             /\ \A j \in 1..Len(new) :
                   /\ new[j].data # <<>>
                   /\ \E i \in 1..Len(new[j].data) : buf[start(j) + i] # TRIG_BYTE
                   /\ \A i \in 1..Len(new[j].data) :
                         buf[start(j) + i] # TRIG_BYTE
                             => TagChannel(buf[start(j) + i]) = new[j].ch_name
                   /\ j > 1 => /\ buf[start(j) + 1] # TRIG_BYTE
                               /\ new[j].ch_name # new[j - 1].ch_name]_vars

\* one read of three bytes after a read of a marker gave three runs: Node
\* with the marker at its head, Ctrl, Node
C31_Witness ==
    /\ wire = <<10, 49, 177, 49>>
    /\ Len(sent) = 3
    /\ sent[1].time_received = 1 /\ sent[3].time_received = 1
    /\ sent[1].ch_name = "Node" /\ sent[1].data = <<10, 49>>
    /\ sent[2].ch_name = "Ctrl" /\ sent[2].data = <<49>>
    /\ sent[3].ch_name = "Node" /\ sent[3].data = <<49>>

DeqSpan(a, b) == Concat([k \in 1..(b - a + 1) |-> deq[a + k - 1].data])

\* the received events a..b are exactly the bytes from offset from on, data
\* long, of all the bytes received, and all have channel ch
RunOfEvents(a, b, from, data, ch) ==
    /\ a <= b
    /\ Len(AllDequeued(a - 1)) = from
    /\ DeqSpan(a, b) = data
    /\ \A k \in a..b : deq[k].ch_name = ch

\* C33 (one open run, one channel): the recorder holds one buffer with one
\* channel; when it is not empty it is the data of the newest received
\* events, one or more, all of channel prev_ch; every write_packet_time
\* call was given the data of consecutive received events that all have the
\* channel of the call, and every record of the call has that channel's
\* source port.
C33_RunOfOneChannel ==
    /\ rec_buf # <<>> =>
          \E a \in 1..Len(deq) :
              RunOfEvents(a, Len(deq), Len(AllFlushed(Len(calls))), rec_buf, prev_ch)
    /\ \A i \in 1..Len(calls) :
          /\ \E a \in 1..Len(deq) : \E b \in a..Len(deq) :
                RunOfEvents(a, b, Len(AllFlushed(i - 1)), calls[i].data, calls[i].ch)
          /\ \A k \in calls[i].first..calls[i].last :
                PortChannel(file[k]) = calls[i].ch

\* a Ctrl run of two events was written and a Node run of one event is open
C33_Witness ==
    /\ Len(deq) = 3 /\ Len(calls) = 1
    /\ deq[1].ch_name = "Ctrl" /\ deq[2].ch_name = "Ctrl" /\ deq[3].ch_name = "Node"
    /\ calls[1].data = deq[1].data \o deq[2].data /\ calls[1].ch = "Ctrl"
    /\ rec_buf = deq[3].data /\ prev_ch = "Node"
    /\ Len(file) = 1 /\ file[1].sport = 422

\* the data of the first n received events of channel ch, concatenated
RECURSIVE DeqBytes(_, _)
DeqBytes(n, ch) ==
    IF n = 0 THEN <<>>
    ELSE IF deq[n].ch_name = ch THEN DeqBytes(n - 1, ch) \o deq[n].data
         ELSE DeqBytes(n - 1, ch)

\* the payloads of the first n records with the source port of ch
RECURSIVE FilePayload(_, _)
FilePayload(n, ch) ==
    IF n = 0 THEN <<>>
    ELSE IF PortChannel(file[n]) = ch THEN FilePayload(n - 1, ch) \o file[n].payload
         ELSE FilePayload(n - 1, ch)

\* C34 (no duplication, no reordering, no alteration): for each channel the
\* payloads of the channel's records, in file order, are a prefix of the
\* data of the channel's received events in the order received; what is
\* missing is the open run if it is of that channel.
C34_WrittenIsPrefix ==
    \A ch \in UartTxChannel :
        LET w == FilePayload(Len(file), ch)
            d == DeqBytes(Len(deq), ch)
        IN /\ Len(w) <= Len(d) /\ SubSeq(d, 1, Len(w)) = w
           /\ d = w \o (IF prev_ch = ch THEN rec_buf ELSE <<>>)

\* records of both channels are written, the Ctrl ones hold all the Ctrl
\* events, and a Node event of the open run is not yet in the file
C34_Witness ==
    /\ Len(file) = 2 /\ file[1].sport = 422 /\ file[2].sport = 1422
    /\ prev_ch = "Node" /\ rec_buf # <<>>
    /\ FilePayload(2, "Ctrl") = DeqBytes(Len(deq), "Ctrl")
    /\ Len(FilePayload(2, "Node")) < Len(DeqBytes(Len(deq), "Node"))

\* C35 (record timestamp): the open run has the time_received of its first
\* event; every record has the time_received of the first event of the run
\* it was written from, also when later events were appended to the run;
\* and the times of the records of one channel never decrease in the file.
C35_RunTimeIsFirstEvent ==
    /\ rec_buf # <<>> =>
          \E a \in 1..Len(deq) :
              /\ Len(AllDequeued(a - 1)) = Len(AllFlushed(Len(calls)))
              /\ rec_time = deq[a].time_received
    /\ \A i \in 1..Len(calls) : \A k \in calls[i].first..calls[i].last :
          \E a \in 1..Len(deq) :
              /\ Len(AllDequeued(a - 1)) = Len(AllFlushed(i - 1))
              /\ file[k].time = deq[a].time_received
              /\ \A b \in (a + 1)..Len(deq) :
                    Len(AllDequeued(b)) <= Len(AllFlushed(i))
                        => file[k].time < deq[b].time_received
    /\ \A j \in 1..Len(file) : \A k \in j..Len(file) :
          file[j].sport = file[k].sport => file[j].time <= file[k].time

\* a record written from a run of two events carries the time of the first
\* one, and a later record of the same channel a later time
C35_Witness ==
    /\ Len(deq) = 3 /\ Len(file) = 2
    /\ file[1].payload = deq[1].data \o deq[2].data
    /\ file[1].time = deq[1].time_received
    /\ file[1].time < deq[2].time_received
    /\ file[2].sport = file[1].sport /\ file[2].time = deq[3].time_received

\* C39 (no empty event): in either mode every event sent to the recorder
\* holds at least one byte, so that data[0] exists for every event the
\* recorder receives; the buffer is not empty once an event is stored in it
\* and is empty only before the first event and after a timeout, so that a
\* run is open exactly when the buffer is not empty; every write_packet_time
\* call is given at least one byte, and every record in the file has a
\* payload of at least one byte.
C39_NoEmptyEvent ==
    /\ \A k \in 1..Len(sent) : Len(sent[k].data) >= 1
    /\ \A k \in 1..Len(queue) : Len(queue[k].data) >= 1
    /\ \A i \in 1..Len(calls) : Len(calls[i].data) >= 1
    /\ \A k \in 1..Len(file) : Len(file[k].payload) >= 1
    /\ (rec_last.r.kind = "some" /\ rec_pc = "running") => rec_buf # <<>>
    /\ (rec_buf = <<>> /\ rec_pc = "running" /\ deq # <<>>) => rec_last.r.kind = "elapsed"

\* two-UART mode: events were sent, a record is written and a run is open
C39_Witness ==
    /\ ~muxed
    /\ Len(sent) = 3 /\ Len(file) = 1
    /\ rec_buf # <<>> /\ rec_pc = "running"
    /\ file[1].payload = sent[1].data

(***************************************************************************)
(* Properties of tail_slice: panics, the region returned, compaction       *)
(***************************************************************************)
\* the last operation was one of the interrupt handlers' sequence
\* tail_slice(1), incr_len(k), consume(c)
HandlerOp ==
    \/ last.op = "tail_slice" /\ last.min_cap = 1
    \/ last.op = "incr_len"
    \/ last.op = "consume"

\* C36 (operations never fail), as claimed: no write, tail_slice, incr_len
\* or consume panics, whatever the buffer holds and whatever it is given; in
\* particular no tail_slice(1) of the handlers' sequence does.
C36_NeverPanics ==
    /\ last.op \in {"write", "tail_slice", "incr_len", "consume"} => ~panicked
    /\ HandlerOp => ~panicked

\* C37 (tail_slice gives room), as claimed: a tail_slice(min_cap) that
\* returns gives a region of at least min_cap bytes; tail_slice(1) gives a
\* region that is not empty.
C37_TailSliceGivesRoom ==
    (last.op = "tail_slice" /\ ~panicked)
        => /\ last.slice_len >= last.min_cap
           /\ last.min_cap = 1 => last.slice_len >= 1

\* C38 (compaction only when needed), as claimed: a tail_slice that finds
\* tail capacity for min_cap leaves the content where it is (the cursor too,
\* unless the buffer is empty); a tail_slice that finds less compacts: the
\* content, without the oldest bytes if they had to go, then starts at
\* offset 0.
C38_CompactsOnlyWhenNeeded ==
    (last.op = "tail_slice" /\ ~panicked)
        => IF last.pre.tail_cap >= last.min_cap
           THEN /\ Deref(ubuf) = last.pre.content
                /\ last.pre.content # <<>> => ubuf.read_pos = last.pre.read_pos
           ELSE /\ ubuf.read_pos = 0
                /\ Deref(ubuf) = LastN(last.pre.content, ubuf.len)
====
